---- MODULE Spec2Model ----
(***************************************************************************)
(* Model of the Moodle scraper (src/main.py): the download history of      *)
(* ResourceDownloader, the filename inference of get_file and the section  *)
(* walk of CourseManager.run.                                              *)
(*                                                                         *)
(* Text (display names, titles, paths) is a sequence of one-character      *)
(* strings, so that lower(), strip(), the regular expressions and          *)
(* os.path.join are computed character by character.                        *)
(***************************************************************************)
EXTENDS Integers, Sequences, FiniteSets, TLC

VARIABLES
    pc,         \* position of the process: boot, loaded, loop, done, expired, crashed, probe
    course,     \* the course state the remote serves: [cm, section]
    expired,    \* whether the landing page carries the login marker, fixed from the first request on
    remote,     \* the remote's answer per URL, fixed from the first request on
    history,    \* ResourceDownloader.history (a Python value)
    disk,       \* content of Second Semester/downloaded_index.json
    files,      \* relative paths of the files get_file wrote under the subject folder
    folders,    \* section folders holding a context.txt
    readme,     \* readme_content of the running CourseManager.run
    readmeFile, \* content of README.md
    si,         \* index of the section being walked (0 before the first)
    mi,         \* index of the next entry of that section's cmlist
    log,        \* the get_file calls of this run, in order
    last,       \* the latest get_file call with the state before and after it
    faults,     \* disk faults the environment may still inject
    run,        \* 1 for the first run of the program, 2 for the run after it
    prev,       \* what the first run left behind, recorded when the second starts
    probe,      \* inputs of the filename inference under test
    stored      \* its result

vars == <<pc, course, expired, remote, history, disk, files, folders, readme,
          readmeFile, si, mi, log, last, faults, run, prev, probe, stored>>

-----------------------------------------------------------------------------
(* Bounds *)

MaxSize == 3

MaxFaults == 1

MaxPieces == 3

-----------------------------------------------------------------------------
(* Text *)

UpperCase == <<"A","B","C","D","E","F","G","H","I","J","K","L","M",
               "N","O","P","Q","R","S","T","U","V","W","X","Y","Z">>

LowerCase == <<"a","b","c","d","e","f","g","h","i","j","k","l","m",
               "n","o","p","q","r","s","t","u","v","w","x","y","z">>

LowerChar(c) ==
    IF \E i \in DOMAIN UpperCase : UpperCase[i] = c
    THEN LowerCase[CHOOSE i \in DOMAIN UpperCase : UpperCase[i] = c]
    ELSE c

Lower(t) == [i \in 1..Len(t) |-> LowerChar(t[i])]

WhiteSpace == {" ", "\t", "\n"}

RECURSIVE LStrip(_)
LStrip(t) ==
    IF t # <<>> /\ Head(t) \in WhiteSpace THEN LStrip(Tail(t)) ELSE t

RECURSIVE RStrip(_)
RStrip(t) ==
    IF t # <<>> /\ t[Len(t)] \in WhiteSpace
    THEN RStrip(SubSeq(t, 1, Len(t) - 1))
    ELSE t

Strip(t) == RStrip(LStrip(t))

EndsWith(t, s) ==
    /\ Len(s) <= Len(t)
    /\ SubSeq(t, Len(t) - Len(s) + 1, Len(t)) = s

\* re.sub(r'\s+', '_', text)
RECURSIVE CollapseSpace(_)
CollapseSpace(t) ==
    IF t = <<>> THEN <<>>
    ELSE IF Head(t) \in WhiteSpace
         THEN <<"_">> \o CollapseSpace(LStrip(Tail(t)))
         ELSE <<Head(t)>> \o CollapseSpace(Tail(t))

IllegalChars == {"\\", "/", "*", "?", ":", "\"", "<", ">", "|"}

IsLegal(c) == c \notin IllegalChars

\* re.sub(r'[\\/*?:"<>|]', "", text)
RemoveIllegal(t) == SelectSeq(t, IsLegal)

_clean_name(text) == RemoveIllegal(CollapseSpace(Strip(Lower(text))))

Suffixes == {<<"F","i","l","e">>, <<"U","R","L">>, <<"F","o","l","d","e","r">>}

DropSuffix(t) ==
    IF \E s \in Suffixes : EndsWith(t, s)
    THEN LET s == CHOOSE x \in Suffixes : EndsWith(t, x)
         IN  SubSeq(t, 1, Len(t) - Len(s))
    ELSE t

\* re.sub(r'(File|URL|Folder)$', '', display_name): $ matches at the end of
\* the text and also just before a newline that ends it.
StripKind(t) ==
    IF \E s \in Suffixes : EndsWith(t, s) THEN DropSuffix(t)
    ELSE IF t # <<>> /\ t[Len(t)] = "\n"
         THEN DropSuffix(SubSeq(t, 1, Len(t) - 1)) \o <<"\n">>
         ELSE t

BaseName(display_name) == _clean_name(Strip(StripKind(display_name)))

-----------------------------------------------------------------------------
(* Content types and extensions *)

\* resp.headers.get('Content-Type', '').lower() for the headers of the model
HeaderLower(h) ==
    CASE h = "Application/PDF" -> "application/pdf"
      [] h = "Text/HTML; charset=UTF-8" -> "text/html; charset=utf-8"
      [] OTHER -> h

IsHtml_Exact(ctype) == ctype = "text/html"

\* "text/html" in ctype
IsHtml(ctype) == ctype \in {"text/html", "text/html; charset=utf-8"}

ext_map(ctype) ==
    CASE ctype = "application/pdf" -> <<".","p","d","f">>
      [] ctype = "application/vnd.openxmlformats-officedocument.wordprocessingml.document"
            -> <<".","d","o","c","x">>
      [] ctype = "application/msword" -> <<".","d","o","c">>
      [] ctype = "application/vnd.openxmlformats-officedocument.presentationml.presentation"
            -> <<".","p","p","t","x">>
      [] ctype = "application/vnd.ms-powerpoint" -> <<".","p","p","t">>
      [] ctype = "application/vnd.openxmlformats-officedocument.spreadsheetml.sheet"
            -> <<".","x","l","s","x">>
      [] ctype = "application/vnd.ms-excel" -> <<".","x","l","s">>
      [] ctype = "text/plain" -> <<".","t","x","t">>
      [] ctype = "application/zip" -> <<".","z","i","p">>
      [] OTHER -> <<>>

\* the list of line 98
KeptExtensions ==
    { <<".","p","d","f">>, <<".","d","o","c","x">>, <<".","d","o","c">>,
      <<".","p","p","t","x">>, <<".","p","p","t">>, <<".","x","l","s","x">>,
      <<".","x","l","s">>, <<".","z","i","p">> }

HasKeptExtension(base_name) == \E e \in KeptExtensions : EndsWith(base_name, e)

FileName(display_name, ctype) ==
    LET base_name == BaseName(display_name)
        extension == ext_map(ctype)
    IN  IF HasKeptExtension(base_name) THEN base_name ELSE base_name \o extension

-----------------------------------------------------------------------------
(* Python values held by the history, and the history file *)

EmptyMap == [u \in {} |-> <<>>]

Dict(m) == [kind |-> "dict", map |-> m, elems |-> {}]

List(e) == [kind |-> "list", map |-> EmptyMap, elems |-> e]

Scalar == [kind |-> "scalar", map |-> EmptyMap, elems |-> {}]

Missing == [kind |-> "missing", value |-> Dict(EmptyMap)]

Garbage == [kind |-> "garbage", value |-> Dict(EmptyMap)]

\* json.dump(self.history, f, ...)
Json(v) == [kind |-> "json", value |-> v]

None == [kind |-> "None", s |-> <<>>]

Str(t) == [kind |-> "str", s |-> t]

\* Python truth value of what get_file returns
Truthy(v) == v.kind = "str" /\ v.s # <<>>

_load_history_Fresh(file) == Dict(EmptyMap)

_load_history(file) ==
    IF file.kind = "missing" THEN Dict(EmptyMap)
    ELSE IF file.kind = "json" THEN file.value
    ELSE Dict(EmptyMap)

\* open(self.index_file, "w") followed by json.dump; fault is what the disk
\* does to this call
_save_history(h, file, fault) ==
    CASE fault = "saveOpen" -> [disk |-> file, raised |-> TRUE]
      [] fault = "saveDump" -> [disk |-> Garbage, raised |-> TRUE]
      [] OTHER -> [disk |-> Json(h), raised |-> FALSE]

\* url in self.history
InRaises(h) == h.kind = "scalar"

In_NeverFound(url, h) == FALSE

In(url, h) ==
    CASE h.kind = "dict" -> url \in DOMAIN h.map
      [] h.kind = "list" -> url \in h.elems
      [] OTHER -> FALSE

\* self.history[url] = rel_path
SetItem(h, url, rel_path) ==
    Dict([u \in DOMAIN h.map \cup {url} |->
            IF u = url THEN rel_path ELSE h.map[u]])

OsSep == "/"

\* os.path.join(a, b) for relative b
PathJoin(a, b) ==
    IF a = <<>> \/ a[Len(a)] = OsSep THEN a \o b ELSE a \o <<OsSep>> \o b

\* open(full_path, 'wb') raises when the path names a directory
IsDirectoryPath(rel_path) == rel_path = <<>> \/ rel_path[Len(rel_path)] = OsSep

Result(ret, outcome, h, file, fs, requested, wrote, raised) ==
    [ret |-> ret, outcome |-> outcome, history |-> h, disk |-> file, files |-> fs,
     requested |-> requested, wrote |-> wrote, raised |-> raised]

\* lines 73-75
CacheHit(h, file, fs, url) ==
    IF h.kind = "dict"
    THEN Result(Str(h.map[url]), "Cached", h, file, fs, FALSE, FALSE, FALSE)
    ELSE Result(None, "Raised", h, file, fs, FALSE, FALSE, TRUE)

\* lines 109-112
Register(h, file, fs, url, rel_path, fault) ==
    IF h.kind # "dict"
    THEN Result(None, "Failed", h, file, fs, TRUE, TRUE, FALSE)
    ELSE LET h2 == SetItem(h, url, rel_path)
             sv == _save_history(h2, file, fault)
         IN  IF sv.raised
             THEN Result(None, "Failed", h2, sv.disk, fs, TRUE, TRUE, FALSE)
             ELSE Result(Str(rel_path), "Saved", h2, sv.disk, fs, TRUE, TRUE, FALSE)

\* lines 76-115: resp is the Content-Type header of the response, or "error"
\* when the request raises
Download(h, file, fs, url, folder_name, display_name, resp, fault) ==
    LET ctype == HeaderLower(resp)
        filename == FileName(display_name, ctype)
        rel_path == PathJoin(folder_name, filename)
    IN  IF resp = "error"
        THEN Result(None, "Failed", h, file, fs, TRUE, FALSE, FALSE)
        ELSE IF IsHtml(ctype)
        THEN Result(None, "SkippedNonFile", h, file, fs, TRUE, FALSE, FALSE)
        ELSE IF fault = "mkdir" \/ fault = "write" \/ IsDirectoryPath(rel_path)
        THEN Result(None, "Failed", h, file, fs, TRUE, FALSE, FALSE)
        ELSE Register(h, file, fs \cup {rel_path}, url, rel_path, fault)

get_file(h, file, fs, url, folder_name, display_name, resp, fault) ==
    IF InRaises(h)
    THEN Result(None, "Raised", h, file, fs, FALSE, FALSE, TRUE)
    ELSE IF In(url, h)
    THEN CacheHit(h, file, fs, url)
    ELSE Download(h, file, fs, url, folder_name, display_name, resp, fault)

-----------------------------------------------------------------------------
(* The inputs: course states, remote answers, history files *)

Urls == {"u1", "u2"}

NotesFile == <<"N","o","t","e","s"," ","F","i","l","e">>

JustFile == <<"F","i","l","e">>

SyllabusPdf == <<"S","y",".","p","d","f">>

Forum == <<" ","F","o","r","u","m">>

Week1 == <<"W","k"," ","1">>

General == <<"G","e","n","e","r","a","l">>

Item(id, module, url, name) == [id |-> id, module |-> module, url |-> url, name |-> name]

\* state['cm']: two resources behind one URL, two behind different URLs, a
\* resource and a forum, and two records with the same id
Catalogues ==
    { << Item(1, "resource", "u1", JustFile), Item(2, "resource", "u1", NotesFile) >>,
      << Item(1, "resource", "u1", NotesFile), Item(2, "resource", "u2", SyllabusPdf) >>,
      << Item(2, "forum", "u2", Forum), Item(1, "resource", "u1", NotesFile) >>,
      << Item(1, "forum", "u2", Forum), Item(1, "resource", "u1", SyllabusPdf) >> }

\* ids a cmlist may name; the last catalogue has no record with id 2
ListedIds == {1, 2}

Titles == {Week1, <<>>}

SeqsUpTo(S, n) == UNION {[1..k -> S] : k \in 0..n}

\* sections plus listed module ids of a section list
RECURSIVE Size(_)
Size(secs) ==
    IF secs = <<>> THEN 0 ELSE 1 + Len(Head(secs).cmlist) + Size(Tail(secs))

SectionLists ==
    { secs \in SeqsUpTo([title : Titles, cmlist : SeqsUpTo(ListedIds, MaxSize - 1)],
                        MaxSize) : Size(secs) <= MaxSize }

Courses == [cm : Catalogues, section : SectionLists]

OldPdf == <<"w","k","_","1","/","o","l","d",".","p","d","f">>

\* downloaded_index.json at the start: absent, not JSON, a mapping written by
\* an earlier run, a JSON array, a JSON number
HistoryFiles ==
    { Missing, Garbage, Json(Dict([u \in {"u1"} |-> OldPdf])),
      Json(List({"u1"})), Json(Scalar) }

\* Content-Type of the answer to a resource request, or "error" for a
\* request that raises
Responses == {"Text/HTML; charset=UTF-8", "application/pdf",
              "application/octet-stream", "error"}

DiskFaults == {"mkdir", "write", "saveOpen", "saveDump"}

-----------------------------------------------------------------------------
(* CourseManager.run *)

\* cm_map = {str(item['id']): item for item in state.get('cm', [])}
HasItem(cm, id) == \E i \in DOMAIN cm : cm[i].id = id

cm_map(cm, id) ==
    cm[CHOOSE i \in DOMAIN cm :
          /\ cm[i].id = id
          /\ \A j \in DOMAIN cm : cm[j].id = id => j <= i]

\* sec.get('title') or sec.get('name') or "General"; the sections of the
\* model carry no 'name'
RawName(sec) == IF sec.title # <<>> THEN sec.title ELSE General

\* BeautifulSoup(name, 'lxml').get_text(strip=True) of text without markup
GetText(name) == Strip(name)

\* local_rel.replace(os.sep, '/')
ReplaceSep(t) == [i \in 1..Len(t) |-> IF t[i] = OsSep THEN "/" ELSE t[i]]

Line(kind, text, path, url) == [kind |-> kind, text |-> text, path |-> path, url |-> url]

Header == Line("header", <<>>, <<>>, "")

Heading(raw_name) == Line("heading", raw_name, <<>>, "")

LocalLink(local_rel, clean_title) == Line("local", clean_title, ReplaceSep(local_rel), "")

RemoteLink(clean_title, url) == Line("remote", clean_title, <<>>, url)

AddHeading_Front(content, raw_name) == <<Heading(raw_name)>> \o content

AddHeading(content, raw_name) == Append(content, Heading(raw_name))

AddLocal_Always(content, ret, clean_title) ==
    Append(content, LocalLink(ret.s, clean_title))

AddLocal(content, ret, clean_title) ==
    IF Truthy(ret) THEN Append(content, LocalLink(ret.s, clean_title)) ELSE content

AddRemote(content, clean_title, url) == Append(content, RemoteLink(clean_title, url))

NoFile == <<Line("absent", <<>>, <<>>, "")>>

NoCall ==
    [called |-> FALSE, url |-> "", folder |-> <<>>, name |-> <<>>, resp |-> "",
     before |-> [history |-> Dict(EmptyMap), disk |-> Missing, files |-> {}],
     res |-> Result(None, "Failed", Dict(EmptyMap), Missing, {}, FALSE, FALSE, FALSE)]

NoPrev ==
    [set |-> FALSE, pc |-> "boot", history |-> Dict(EmptyMap), disk |-> Missing,
     files |-> {}, readmeFile |-> NoFile, log |-> <<>>]

NoProbe == [name |-> <<>>, header |-> ""]

Sec == course.section[si]

AtSectionEnd == IF si = 0 THEN TRUE ELSE mi > Len(Sec.cmlist)

Init ==
    /\ pc = "boot"
    /\ course \in Courses
    /\ expired = "unset"
    /\ remote = [u \in Urls |-> "unset"]
    /\ history = Dict(EmptyMap)
    /\ disk \in HistoryFiles
    /\ files = {}
    /\ folders = {}
    /\ readme = <<>>
    /\ readmeFile = NoFile
    /\ si = 0
    /\ mi = 1
    /\ log = <<>>
    /\ last = NoCall
    /\ faults = MaxFaults
    /\ run = 1
    /\ prev = NoPrev
    /\ probe = NoProbe
    /\ stored = <<>>

\* ResourceDownloader.__init__
Construct ==
    /\ pc = "boot"
    /\ history' = _load_history(disk)
    /\ pc' = "loaded"
    /\ UNCHANGED <<course, expired, remote, disk, files, folders, readme, readmeFile,
                   si, mi, log, last, faults, run, prev, probe, stored>>

\* whether the landing page shows the login form
Landing == IF expired = "unset" THEN {"yes", "no"} ELSE {expired}

\* lines 130-133
SessionExpired ==
    /\ pc = "loaded"
    /\ "yes" \in Landing
    /\ expired' = "yes"
    /\ pc' = "expired"
    /\ UNCHANGED <<course, remote, history, disk, files, folders, readme,
                   readmeFile, si, mi, log, last, faults, run, prev, probe, stored>>

\* lines 130-146
RunStart ==
    /\ pc = "loaded"
    /\ "no" \in Landing
    /\ expired' = "no"
    /\ pc' = "loop"
    /\ readme' = <<Header>>
    /\ si' = 0
    /\ mi' = 1
    /\ UNCHANGED <<course, remote, history, disk, files, folders, readmeFile,
                   log, last, faults, run, prev, probe, stored>>

\* lines 147-163
EnterSection ==
    /\ pc = "loop"
    /\ AtSectionEnd
    /\ si < Len(course.section)
    /\ LET sec == course.section[si + 1]
           raw_name == RawName(sec)
       IN  /\ folders' = folders \cup {_clean_name(raw_name)}
           /\ readme' = AddHeading(readme, raw_name)
    /\ si' = si + 1
    /\ mi' = 1
    /\ UNCHANGED <<pc, course, expired, remote, history, disk, files, readmeFile,
                   log, last, faults, run, prev, probe, stored>>

\* lines 164-166
SkipMissing ==
    /\ pc = "loop"
    /\ ~AtSectionEnd
    /\ ~HasItem(course.cm, Sec.cmlist[mi])
    /\ mi' = mi + 1
    /\ UNCHANGED <<pc, course, expired, remote, history, disk, files, folders, readme,
                   readmeFile, si, log, last, faults, run, prev, probe, stored>>

\* lines 174-175
LinkOther ==
    /\ pc = "loop"
    /\ ~AtSectionEnd
    /\ HasItem(course.cm, Sec.cmlist[mi])
    /\ LET item == cm_map(course.cm, Sec.cmlist[mi])
       IN  /\ item.module # "resource"
           /\ readme' = AddRemote(readme, GetText(item.name), item.url)
    /\ mi' = mi + 1
    /\ UNCHANGED <<pc, course, expired, remote, history, disk, files, folders,
                   readmeFile, si, log, last, faults, run, prev, probe, stored>>

\* what the remote answers to a request for url
Answers(url) == IF remote[url] = "unset" THEN Responses ELSE {remote[url]}

Injectable == IF faults > 0 THEN DiskFaults \cup {"none"} ELSE {"none"}

\* lines 169-173
FetchResource ==
    /\ pc = "loop"
    /\ ~AtSectionEnd
    /\ HasItem(course.cm, Sec.cmlist[mi])
    /\ LET item == cm_map(course.cm, Sec.cmlist[mi])
           folder_name == _clean_name(RawName(Sec))
       IN  /\ item.module = "resource"
           /\ IF InRaises(history)
              THEN /\ pc' = "crashed"
                   /\ UNCHANGED <<remote, history, disk, files, readme, mi, log, last,
                                  faults>>
              ELSE \E resp \in Answers(item.url), fault \in Injectable :
                     LET res == get_file(history, disk, files, item.url, folder_name,
                                         item.name, resp, fault)
                         plain == get_file(history, disk, files, item.url, folder_name,
                                           item.name, resp, "none")
                     IN  /\ fault # "none" => res # plain
                         /\ history' = res.history
                         /\ disk' = res.disk
                         /\ files' = res.files
                         /\ remote' = IF res.requested
                                      THEN [remote EXCEPT ![item.url] = resp]
                                      ELSE remote
                         /\ faults' = IF fault = "none" THEN faults ELSE faults - 1
                         /\ log' = Append(log, [si |-> si, mi |-> mi, url |-> item.url,
                                                ret |-> res.ret,
                                                outcome |-> res.outcome,
                                                requested |-> res.requested,
                                                wrote |-> res.wrote])
                         /\ last' = [called |-> TRUE, url |-> item.url,
                                     folder |-> folder_name, name |-> item.name,
                                     resp |-> IF res.requested THEN resp ELSE "",
                                     before |-> [history |-> history, disk |-> disk,
                                                 files |-> files],
                                     res |-> res]
                         /\ IF res.raised
                            THEN pc' = "crashed" /\ readme' = readme /\ mi' = mi
                            ELSE /\ pc' = pc
                                 /\ readme' = AddLocal(readme, res.ret, GetText(item.name))
                                 /\ mi' = mi + 1
    /\ UNCHANGED <<course, expired, folders, readmeFile, si, run, prev, probe, stored>>

\* lines 179-181
WriteReadme ==
    /\ pc = "loop"
    /\ AtSectionEnd
    /\ si = Len(course.section)
    /\ readmeFile' = readme
    /\ pc' = "done"
    /\ UNCHANGED <<course, expired, remote, history, disk, files, folders, readme,
                   si, mi, log, last, faults, run, prev, probe, stored>>

\* the program is started again on what the first run left on disk
Rerun ==
    /\ pc \in {"done", "expired"}
    /\ run = 1
    /\ run' = 2
    /\ prev' = [set |-> TRUE, pc |-> pc, history |-> history, disk |-> disk,
                files |-> files, readmeFile |-> readmeFile, log |-> log]
    /\ pc' = "boot"
    /\ history' = Dict(EmptyMap)
    /\ readme' = <<>>
    /\ si' = 0
    /\ mi' = 1
    /\ log' = <<>>
    /\ last' = NoCall
    /\ UNCHANGED <<course, expired, remote, disk, files, folders, readmeFile, faults,
                   probe, stored>>

Next ==
    \/ Construct
    \/ SessionExpired
    \/ RunStart
    \/ EnterSection
    \/ SkipMissing
    \/ LinkOther
    \/ FetchResource
    \/ WriteReadme
    \/ Rerun

Spec == Init /\ [][Next]_vars

-----------------------------------------------------------------------------
(* The filename inference of get_file on its own, lines 79-101 *)

Pieces ==
    { <<"a">>, <<"B">>, <<" ">>, <<"\n">>, <<"?">>, <<"x">>,
      <<".","p","d","f">>, <<".","t","x","t">>, <<".","d","o","c">>,
      <<"F","i","l","e">>, <<"U","R","L">> }

RECURSIVE TextsUpTo(_)
TextsUpTo(n) ==
    IF n = 0 THEN {<<>>}
    ELSE LET shorter == TextsUpTo(n - 1)
         IN  shorter \cup {t \o p : t \in shorter, p \in Pieces}

Headers ==
    { "application/pdf", "Application/PDF", "text/plain", "application/msword",
      "application/octet-stream", "", "Text/HTML; charset=UTF-8" }

InitName ==
    /\ pc = "probe"
    /\ probe \in [name : TextsUpTo(MaxPieces), header : Headers]
    /\ stored = <<>>
    /\ course = [cm |-> <<>>, section |-> <<>>]
    /\ expired = "unset"
    /\ remote = [u \in Urls |-> "unset"]
    /\ history = Dict(EmptyMap)
    /\ disk = Missing
    /\ files = {}
    /\ folders = {}
    /\ readme = <<>>
    /\ readmeFile = NoFile
    /\ si = 0
    /\ mi = 1
    /\ log = <<>>
    /\ last = NoCall
    /\ faults = 0
    /\ run = 1
    /\ prev = NoPrev

\* line 80
RejectHtml ==
    /\ pc = "probe"
    /\ IsHtml(HeaderLower(probe.header))
    /\ pc' = "skipped"
    /\ UNCHANGED <<course, expired, remote, history, disk, files, folders, readme,
                   readmeFile, si, mi, log, last, faults, run, prev, probe, stored>>

\* lines 82-101
InferName ==
    /\ pc = "probe"
    /\ ~IsHtml(HeaderLower(probe.header))
    /\ stored' = FileName(probe.name, HeaderLower(probe.header))
    /\ pc' = "named"
    /\ UNCHANGED <<course, expired, remote, history, disk, files, folders, readme,
                   readmeFile, si, mi, log, last, faults, run, prev, probe>>

NextName == RejectHtml \/ InferName

SpecName == InitName /\ [][NextName]_vars

-----------------------------------------------------------------------------
(* Properties *)

Keys(h) == IF h.kind = "dict" THEN DOMAIN h.map ELSE {}

SecondDone == pc = "done" /\ run = 2 /\ prev.pc = "done"

\* the url->path mapping a history file holds; none when it holds no mapping
PersistedMap(file) ==
    IF file.kind = "json" /\ file.value.kind = "dict" THEN file.value.map ELSE EmptyMap

\* a Content-Type header that declares text/html
DeclaresHtml(header) == header \in {"text/html", "Text/HTML; charset=UTF-8"}

\* C1: a get_file call for a URL that is a key of the history makes no
\* request, writes no file, returns the stored path and leaves the history in
\* memory and on disk as they were.
C1_CacheHit ==
    (last.called /\ last.url \in Keys(last.before.history)) =>
        /\ ~last.res.requested
        /\ ~last.res.wrote
        /\ last.res.ret = Str(last.before.history.map[last.url])
        /\ last.res.history = last.before.history
        /\ last.res.disk = last.before.disk
        /\ last.res.files = last.before.files
        /\ history = last.before.history
        /\ disk = last.before.disk
        /\ files = last.before.files

C1_Witness ==
    /\ last.called
    /\ last.url \in Keys(last.before.history)
    /\ last.res.ret = Str(OldPdf)
    /\ last.folder # <<"w","k","_","1">>
    /\ OldPdf \notin files

\* C2 as stated: after a second run on the history the first run persisted,
\* the history and the index equal those of the first run, and every resource
\* module of the second run is reported as cached and writes no file (stated
\* for the runs in which the disk never failed).
C2_Original ==
    (SecondDone /\ faults = MaxFaults) =>
        /\ history = prev.history
        /\ readmeFile = prev.readmeFile
        /\ \A k \in DOMAIN log : log[k].outcome = "Cached" /\ ~log[k].wrote

\* C2 amended: the second run keeps every entry of the history the first run
\* persisted; it reports as cached, without request or write, every resource
\* module whose URL is in that history; a module skipped as HTML in the first
\* run is requested and skipped again; and when no fetch of the first run
\* failed, history, index and files after the second run equal the first's.
C2_Amended ==
    SecondDone =>
        LET start == PersistedMap(prev.disk)
        IN  /\ \A u \in DOMAIN start :
                  u \in Keys(history) /\ history.map[u] = start[u]
            /\ Len(log) = Len(prev.log)
            /\ \A k \in DOMAIN log :
                  /\ log[k].url = prev.log[k].url
                  /\ log[k].url \in DOMAIN start =>
                        /\ log[k].outcome = "Cached"
                        /\ log[k].ret = Str(start[log[k].url])
                        /\ ~log[k].requested
                        /\ ~log[k].wrote
                  /\ prev.log[k].outcome = "SkippedNonFile" =>
                        /\ log[k].outcome = "SkippedNonFile"
                        /\ log[k].requested
                        /\ ~log[k].wrote
            /\ (\A k \in DOMAIN prev.log : prev.log[k].outcome # "Failed") =>
                  /\ history = prev.history
                  /\ disk = prev.disk
                  /\ readmeFile = prev.readmeFile
                  /\ files = prev.files
                  /\ \A k \in DOMAIN log : ~log[k].wrote

C2_Witness ==
    /\ SecondDone
    /\ \E k \in DOMAIN log :
          prev.log[k].outcome = "Saved" /\ log[k].outcome = "Cached"
    /\ \E k \in DOMAIN log : log[k].outcome = "SkippedNonFile"
    /\ \A k \in DOMAIN prev.log : prev.log[k].outcome # "Failed"

\* C3: a get_file call for a URL not in the history whose response is HTML
\* returns None as SkippedNonFile, writes no file and adds no history entry
\* in memory or on disk.
C3_HtmlGuard ==
    (/\ last.called
     /\ last.url \notin Keys(last.before.history)
     /\ last.url \notin last.before.history.elems
     /\ DeclaresHtml(last.resp)) =>
        /\ last.res.outcome = "SkippedNonFile"
        /\ last.res.ret = None
        /\ ~last.res.wrote
        /\ last.res.files = last.before.files
        /\ last.res.history = last.before.history
        /\ last.res.disk = last.before.disk
        /\ files = last.before.files
        /\ history = last.before.history
        /\ disk = last.before.disk

C3_Witness ==
    /\ last.called
    /\ last.resp = "Text/HTML; charset=UTF-8"
    /\ last.res.outcome = "SkippedNonFile"
    /\ last.before.history.kind = "dict"

\* C4: at every point between two get_file calls of a run the persisted
\* mapping equals the mapping in memory.
C4_PersistedEqualsMemory ==
    pc = "loop" => history = _load_history(disk)

\* C5: once a fetch has failed the run still goes on: it never ends in an
\* uncaught exception.
C5_FailureNotFatal ==
    ~(pc = "crashed" /\ \E k \in DOMAIN log : log[k].outcome = "Failed")

IsHeading(line) == line.kind = "heading"

HeadingTexts(content) ==
    LET hs == SelectSeq(content, IsHeading)
    IN  [i \in 1..Len(hs) |-> hs[i].text]

\* C6: the index holds one heading per section, in the order of the section
\* list.
C6_SectionOrder ==
    pc = "done" =>
        HeadingTexts(readmeFile) =
            [i \in 1..Len(course.section) |->
                IF course.section[i].title # <<>> THEN course.section[i].title
                ELSE General]

C6_Witness ==
    /\ pc = "done"
    /\ Len(course.section) >= 2
    /\ course.section[1].title # course.section[2].title
    /\ \E k \in DOMAIN log : log[k].outcome \in {"Failed", "SkippedNonFile"}

ValidHistoryFile(file) == file.kind = "json" /\ file.value.kind = "dict"

\* C7: a history file that is missing or is no url->path mapping loads as the
\* empty mapping, and the run does not crash.
C7_CorruptLoadsEmpty ==
    /\ (pc = "loaded" /\ ~ValidHistoryFile(disk)) => history = Dict(EmptyMap)
    /\ pc # "crashed"

TableExtensions ==
    { <<".","p","d","f">>, <<".","d","o","c">>, <<".","d","o","c","x">>,
      <<".","p","p","t">>, <<".","p","p","t","x">>, <<".","x","l","s">>,
      <<".","x","l","s","x">>, <<".","t","x","t">>, <<".","z","i","p">> }

\* C8: a base filename that already ends in an extension of the table is
\* stored as it is; any other gets the table's extension for the content type.
C8_NoDoubleExtension ==
    pc = "named" =>
        LET base == BaseName(probe.name)
        IN  stored = IF \E e \in TableExtensions : EndsWith(base, e)
                     THEN base
                     ELSE base \o ext_map(HeaderLower(probe.header))

CallsAt(i, j) == {k \in DOMAIN log : log[k].si = i /\ log[k].mi = j}

RecordsOf(id) == {n \in DOMAIN course.cm : course.cm[n].id = id}

RecordOf(id) ==
    course.cm[CHOOSE n \in RecordsOf(id) : \A m \in RecordsOf(id) : m <= n]

\* the link entries the claim expects for entry j of section i
ExpectedEntry(i, j) ==
    LET id == course.section[i].cmlist[j]
    IN  IF RecordsOf(id) = {} THEN <<>>
        ELSE IF RecordOf(id).module = "resource"
        THEN IF \E k \in CallsAt(i, j) : log[k].outcome \in {"Cached", "Saved"}
             THEN LET k == CHOOSE c \in CallsAt(i, j) : TRUE
                  IN  <<Line("local", Strip(RecordOf(id).name), log[k].ret.s, "")>>
             ELSE <<>>
        ELSE <<Line("remote", Strip(RecordOf(id).name), <<>>, RecordOf(id).url)>>

RECURSIVE ExpectedEntries(_, _)
ExpectedEntries(i, j) ==
    IF j > Len(course.section[i].cmlist) THEN <<>>
    ELSE ExpectedEntry(i, j) \o ExpectedEntries(i, j + 1)

RECURSIVE EntriesFrom(_, _)
EntriesFrom(content, n) ==
    IF n > Len(content) \/ content[n].kind = "heading" THEN <<>>
    ELSE <<content[n]>> \o EntriesFrom(content, n + 1)

\* position in content of the i-th heading
RECURSIVE HeadingAt(_, _, _)
HeadingAt(content, i, n) ==
    IF content[n].kind = "heading"
    THEN IF i = 1 THEN n ELSE HeadingAt(content, i - 1, n + 1)
    ELSE HeadingAt(content, i, n + 1)

\* C9: within each section of the index the link entries follow the cmlist:
\* none for an id without record, for a resource one get_file call and a local
\* link exactly when it yields a path, for any other kind no call and a link
\* to the remote URL.
C9_LinkEntries ==
    (pc = "done" /\ Len(SelectSeq(readmeFile, IsHeading)) = Len(course.section)) =>
        \A i \in DOMAIN course.section :
            /\ EntriesFrom(readmeFile, HeadingAt(readmeFile, i, 1) + 1)
                  = ExpectedEntries(i, 1)
            /\ \A j \in DOMAIN course.section[i].cmlist :
                  LET id == course.section[i].cmlist[j]
                  IN  Cardinality(CallsAt(i, j)) =
                         IF RecordsOf(id) # {} /\ RecordOf(id).module = "resource"
                         THEN 1 ELSE 0

C9_Witness ==
    /\ pc = "done"
    /\ \E n \in DOMAIN readmeFile :
          /\ n > 1
          /\ readmeFile[n].kind = "local"
          /\ readmeFile[n - 1].kind = "remote"
    /\ \E k \in DOMAIN log : log[k].outcome = "Saved"

\* C10: a get_file call that fails leaves the history in memory as it was.
C10_FailedKeepsHistory ==
    (last.called /\ last.res.outcome = "Failed") =>
        last.res.history = last.before.history /\ history = last.before.history

====
